---- MODULE Spec2Model ----
(***************************************************************************)
(* Model of main() of the recordserviced daemon                            *)
(* (be/src/service/recordserviced-main.cc): option check, native           *)
(* subsystem initialisation, service id, ExecEnv, creation and start of    *)
(* the planner and worker ThriftServers, readiness metrics, Join and       *)
(* teardown.  One action per statement of main(); the service loops of     *)
(* the started ThriftServers run concurrently with main().                 *)
(***************************************************************************)
EXTENDS Integers, Sequences, FiniteSets, TLC

\* Largest port number of the explored configurations (ports are 0 .. MaxPort).
MaxPort == 11

Ports == 0 .. MaxPort
Hostnames == {"node1", "node2"}
Roles == {"planner", "worker"}
Flags == {"RUNNING_PLANNER", "RUNNING_WORKER", "IMPALA_SERVER_READY"}

\* The native initialisation calls of lines 61-66, in program order.
BootstrapSteps ==
    <<"InitializeLlvm", "InitLibhdfs", "HBaseTableScanner", "HBaseTableFactory",
      "HBaseTableWriter", "InitFeSupport">>

StepNames == {BootstrapSteps[i] : i \in 1 .. Len(BootstrapSteps)}

\* The calls whose Status main() wraps in EXIT_IF_ERROR (lines 63-65).
CheckedSteps == {"HBaseTableScanner", "HBaseTableFactory", "HBaseTableWriter"}

VARIABLES
    hostname,          \* FLAGS_hostname
    plannerPort,       \* FLAGS_recordservice_planner_port
    workerPort,        \* FLAGS_recordservice_worker_port
    pc,                \* position of main()
    exited,            \* the process has terminated
    exitStatus,        \* its exit status (meaningful once exited)
    abortCause,        \* which check of main() ended the process, "none" otherwise
    commonRuntime,     \* InitCommonRuntime has run
    bootstrap,         \* outcome of each native initialisation call
    service_id,        \* the string service_id of line 72
    exec_env,          \* the ExecEnv object of line 74
    instrumentation,   \* instrumentation started on exec_env (lines 76-77)
    server,            \* the shared ImpalaServer exists
    handle,            \* recordservice_planner / recordservice_worker
    startCalled,       \* roles whose ThriftServer::Start was invoked
    startFailed,       \* roles whose ThriftServer::Start returned an error
    flags,             \* the three boolean metrics
    writes,            \* number of set_value calls on each metric
    joined,            \* roles whose Join has returned
    stopOrder,         \* order in which the service loops terminated
    errorLogged,       \* an error message was written
    loggingShutdown    \* the log sinks were flushed and closed

config == <<hostname, plannerPort, workerPort>>
outcome == <<exited, exitStatus, abortCause, errorLogged, loggingShutdown>>
envState == <<commonRuntime, service_id, exec_env, instrumentation, server>>
services == <<handle, startCalled, startFailed, joined, stopOrder>>
metrics == <<flags, writes>>
vars == <<hostname, plannerPort, workerPort, pc, exited, exitStatus, abortCause,
          commonRuntime, bootstrap, service_id, exec_env, instrumentation, server,
          handle, startCalled, startFailed, flags, writes, joined, stopOrder,
          errorLogged, loggingShutdown>>

----------------------------------------------------------------------------
\* Pure helpers

Digits == <<"0", "1", "2", "3", "4", "5", "6", "7", "8", "9">>

RECURSIVE ToDecimal(_)
\* Decimal rendering of a non-negative port number.
ToDecimal(n) ==
    IF n < 10 THEN Digits[n + 1]
    ELSE ToDecimal(n \div 10) \o Digits[(n % 10) + 1]

\* MakeNetworkAddress(hostname, port): a TNetworkAddress.
MakeNetworkAddress(h, p) == [hostname |-> h, port |-> p]

\* TNetworkAddressToString(address): "<host>:<port>".
TNetworkAddressToString(a) == a.hostname \o ":" \o ToDecimal(a.port)

\* The port argument of line 70-71.
PrimaryPort_WorkerFirst(pp, wp) == IF wp = 0 THEN pp ELSE wp

PrimaryPort(pp, wp) == IF pp = 0 THEN wp ELSE pp

\* Lines 69-73: Substitute("recordserviced@$0", TNetworkAddressToString(...)).
ServiceId(h, pp, wp) ==
    "recordserviced@" \o TNetworkAddressToString(MakeNetworkAddress(h, PrimaryPort(pp, wp)))

\* The handles ImpalaServer::StartRecordServiceServices hands back for the
\* two configured ports: one per non-zero port, not yet started.
CreatedHandles(pp, wp) ==
    [r \in Roles |->
        IF (r = "planner" /\ pp # 0) \/ (r = "worker" /\ wp # 0)
        THEN "created" ELSE "NULL"]

\* exit(status)
Exit(status, cause) ==
    /\ pc' = "exited"
    /\ exited' = TRUE
    /\ exitStatus' = status
    /\ abortCause' = cause

\* EXIT_IF_ERROR(stmt): continue at next when stmt returned OK, otherwise
\* report the error and terminate the process with a non-zero status.
EXIT_IF_ERROR(ok, next, cause) ==
    IF ok
    THEN /\ pc' = next
         /\ UNCHANGED outcome
    ELSE /\ Exit(1, cause)
         /\ errorLogged' = TRUE
         /\ loggingShutdown' = TRUE

SetFlag(f) ==
    /\ flags' = [flags EXCEPT ![f] = TRUE]
    /\ writes' = [writes EXCEPT ![f] = @ + 1]

----------------------------------------------------------------------------
Init ==
    /\ hostname \in Hostnames
    /\ plannerPort \in Ports
    /\ workerPort \in Ports
    /\ pc = "init_common_runtime"
    /\ exited = FALSE
    /\ exitStatus = 0
    /\ abortCause = "none"
    /\ commonRuntime = FALSE
    /\ bootstrap = [s \in StepNames |-> "notrun"]
    /\ service_id = ""
    /\ exec_env = "none"
    /\ instrumentation = {}
    /\ server = FALSE
    /\ handle = [r \in Roles |-> "NULL"]
    /\ startCalled = {}
    /\ startFailed = {}
    /\ flags = [f \in Flags |-> FALSE]
    /\ writes = [f \in Flags |-> 0]
    /\ joined = {}
    /\ stopOrder = <<>>
    /\ errorLogged = FALSE
    /\ loggingShutdown = FALSE

\* Line 53
InitCommonRuntime ==
    /\ pc = "init_common_runtime"
    /\ commonRuntime' = TRUE
    /\ pc' = "check_ports"
    /\ UNCHANGED <<config, outcome, bootstrap, service_id, exec_env, instrumentation,
                   server, services, metrics>>

CheckPorts_NoCheck ==
    /\ pc = "check_ports"
    /\ pc' = "InitializeLlvm"
    /\ UNCHANGED <<config, outcome, envState, bootstrap, services, metrics>>

CheckPorts_ExitZero ==
    /\ pc = "check_ports"
    /\ IF workerPort = 0 /\ plannerPort = 0
       THEN /\ errorLogged' = TRUE
            /\ Exit(0, "precondition")
            /\ UNCHANGED loggingShutdown
       ELSE /\ pc' = "InitializeLlvm"
            /\ UNCHANGED outcome
    /\ UNCHANGED <<config, envState, bootstrap, services, metrics>>

\* Lines 55-59
CheckPorts ==
    /\ pc = "check_ports"
    /\ IF workerPort = 0 /\ plannerPort = 0
       THEN /\ errorLogged' = TRUE
            /\ Exit(1, "precondition")
            /\ UNCHANGED loggingShutdown
       ELSE /\ pc' = "InitializeLlvm"
            /\ UNCHANGED outcome
    /\ UNCHANGED <<config, envState, bootstrap, services, metrics>>

\* A native initialisation call whose result main() does not look at:
\* whatever the call's outcome, main() goes on to the next statement.
UncheckedStep(step, next) ==
    /\ pc = step
    /\ \E ok \in BOOLEAN :
          bootstrap' = [bootstrap EXCEPT ![step] = IF ok THEN "ok" ELSE "failed"]
    /\ pc' = next
    /\ UNCHANGED <<config, outcome, envState, services, metrics>>

CheckedStep_Ignored(step, next) ==
    /\ pc = step
    /\ \E ok \in BOOLEAN :
          bootstrap' = [bootstrap EXCEPT ![step] = IF ok THEN "ok" ELSE "failed"]
    /\ pc' = next
    /\ UNCHANGED <<config, outcome, envState, services, metrics>>

\* A native initialisation call wrapped in EXIT_IF_ERROR.
CheckedStep(step, next) ==
    /\ pc = step
    /\ \E ok \in BOOLEAN :
          /\ bootstrap' = [bootstrap EXCEPT ![step] = IF ok THEN "ok" ELSE "failed"]
          /\ EXIT_IF_ERROR(ok, next, "bootstrap")
    /\ UNCHANGED <<config, envState, services, metrics>>

\* Line 61
InitializeLlvm == UncheckedStep("InitializeLlvm", "InitLibhdfs")

\* Line 62
InitLibhdfs == UncheckedStep("InitLibhdfs", "HBaseTableScanner")

\* Line 63
HBaseTableScannerInit == CheckedStep("HBaseTableScanner", "HBaseTableFactory")

\* Line 64
HBaseTableFactoryInit == CheckedStep("HBaseTableFactory", "HBaseTableWriter")

\* Line 65
HBaseTableWriterInitJNI == CheckedStep("HBaseTableWriter", "InitFeSupport")

InitFeSupport_SkipsServiceId == UncheckedStep("InitFeSupport", "exec_env")

\* Line 66
InitFeSupport == UncheckedStep("InitFeSupport", "service_id")

\* Lines 68-73
GenerateServiceId ==
    /\ pc = "service_id"
    /\ service_id' = ServiceId(hostname, plannerPort, workerPort)
    /\ pc' = "exec_env"
    /\ UNCHANGED <<config, outcome, commonRuntime, exec_env, instrumentation, server,
                   bootstrap, services, metrics>>

\* Line 74
ConstructExecEnv ==
    /\ pc = "exec_env"
    /\ exec_env' = "constructed"
    /\ pc' = "thread_instrumentation"
    /\ UNCHANGED <<config, outcome, commonRuntime, service_id, instrumentation, server,
                   bootstrap, services, metrics>>

\* Line 76
StartThreadInstrumentation ==
    /\ pc = "thread_instrumentation"
    /\ instrumentation' = instrumentation \cup {"thread"}
    /\ pc' = "rpc_tracing"
    /\ UNCHANGED <<config, outcome, commonRuntime, service_id, exec_env, server,
                   bootstrap, services, metrics>>

\* Line 77
InitRpcEventTracing ==
    /\ pc = "rpc_tracing"
    /\ instrumentation' = instrumentation \cup {"rpc"}
    /\ pc' = "create_server"
    /\ UNCHANGED <<config, outcome, commonRuntime, service_id, exec_env, server,
                   bootstrap, services, metrics>>

\* Lines 79-84
CreateImpalaServer ==
    /\ pc = "create_server"
    /\ \E ok \in BOOLEAN :
          /\ server' = ok
          /\ EXIT_IF_ERROR(ok, "start_recordservice_services", "create_server")
    /\ UNCHANGED <<config, commonRuntime, service_id, exec_env, instrumentation,
                   bootstrap, services, metrics>>

\* Lines 86-88
StartRecordServiceServices ==
    /\ pc = "start_recordservice_services"
    /\ \E ok \in BOOLEAN :
          /\ handle' = IF ok THEN CreatedHandles(plannerPort, workerPort) ELSE handle
          /\ EXIT_IF_ERROR(ok, "env_start_services", "activation")
    /\ UNCHANGED <<config, envState, bootstrap, startCalled, startFailed, joined,
                   stopOrder, metrics>>

StartServices_Unchecked ==
    /\ pc = "env_start_services"
    /\ \E ok \in BOOLEAN :
          exec_env' = IF ok THEN "started" ELSE "start_failed"
    /\ pc' = "start_planner"
    /\ UNCHANGED <<config, outcome, commonRuntime, service_id, instrumentation, server,
                   bootstrap, services, metrics>>

\* Lines 90-96
StartServices ==
    /\ pc = "env_start_services"
    /\ \E ok \in BOOLEAN :
          IF ok
          THEN /\ exec_env' = "started"
               /\ pc' = "start_planner"
               /\ UNCHANGED outcome
          ELSE /\ exec_env' = "start_failed"
               /\ errorLogged' = TRUE
               /\ loggingShutdown' = TRUE
               /\ Exit(1, "env_start")
    /\ UNCHANGED <<config, commonRuntime, service_id, instrumentation, server,
                   bootstrap, services, metrics>>

\* ThriftServer::Start on the handle of role r: on success the service loop
\* of r is running and accepts connections, on failure nothing runs.
ThriftServerStart(r, ok) ==
    /\ startCalled' = startCalled \cup {r}
    /\ startFailed' = IF ok THEN startFailed ELSE startFailed \cup {r}
    /\ handle' = IF ok THEN [handle EXCEPT ![r] = "running"] ELSE handle

\* ThriftServer::Join on the handle of role r returns only once the service
\* loop of r has terminated.
ThriftServerJoinReturns(r) == handle[r] = "stopped"

StartHandle_Unchecked(r, next) ==
    \E ok \in BOOLEAN :
       /\ ThriftServerStart(r, ok)
       /\ pc' = next
       /\ UNCHANGED outcome

\* EXIT_IF_ERROR(handle->Start()) of lines 99 and 103.
StartHandle(r, next) ==
    \E ok \in BOOLEAN :
       /\ ThriftServerStart(r, ok)
       /\ EXIT_IF_ERROR(ok, next, "start")

\* Lines 98-99
StartPlanner ==
    /\ pc = "start_planner"
    /\ IF handle["planner"] # "NULL"
       THEN StartHandle("planner", "publish_planner")
       ELSE /\ pc' = "start_worker"
            /\ UNCHANGED <<outcome, handle, startCalled, startFailed>>
    /\ UNCHANGED <<config, envState, bootstrap, joined, stopOrder, metrics>>

PublishPlanner_Skipped ==
    /\ pc = "publish_planner"
    /\ pc' = "start_worker"
    /\ UNCHANGED <<config, outcome, envState, bootstrap, services, metrics>>

\* Line 100
PublishPlanner ==
    /\ pc = "publish_planner"
    /\ SetFlag("RUNNING_PLANNER")
    /\ pc' = "start_worker"
    /\ UNCHANGED <<config, outcome, envState, bootstrap, services>>

StartWorker_FlagOutsideIf ==
    /\ pc = "start_worker"
    /\ IF handle["worker"] # "NULL"
       THEN StartHandle("worker", "publish_worker")
       ELSE /\ pc' = "publish_worker"
            /\ UNCHANGED <<outcome, handle, startCalled, startFailed>>
    /\ UNCHANGED <<config, envState, bootstrap, joined, stopOrder, metrics>>

\* Lines 102-103
StartWorker ==
    /\ pc = "start_worker"
    /\ IF handle["worker"] # "NULL"
       THEN StartHandle("worker", "publish_worker")
       ELSE /\ pc' = "publish_ready"
            /\ UNCHANGED <<outcome, handle, startCalled, startFailed>>
    /\ UNCHANGED <<config, envState, bootstrap, joined, stopOrder, metrics>>

PublishWorker_Skipped ==
    /\ pc = "publish_worker"
    /\ pc' = "publish_ready"
    /\ UNCHANGED <<config, outcome, envState, bootstrap, services, metrics>>

\* Line 104
PublishWorker ==
    /\ pc = "publish_worker"
    /\ SetFlag("RUNNING_WORKER")
    /\ pc' = "publish_ready"
    /\ UNCHANGED <<config, outcome, envState, bootstrap, services>>

\* Lines 107-108
PublishReady ==
    /\ pc = "publish_ready"
    /\ SetFlag("IMPALA_SERVER_READY")
    /\ pc' = "join_planner"
    /\ UNCHANGED <<config, outcome, envState, bootstrap, services>>

\* The service loop of a started ThriftServer terminates (shutdown request
\* or internal error); this happens in the server's own thread, at any
\* moment while the process is alive.
ServiceLoopExit(r) ==
    /\ ~exited
    /\ handle[r] = "running"
    /\ handle' = [handle EXCEPT ![r] = "stopped"]
    /\ stopOrder' = Append(stopOrder, r)
    /\ UNCHANGED <<config, pc, outcome, envState, bootstrap, startCalled, startFailed,
                   joined, metrics>>

\* if (handle != NULL) handle->Join(), lines 110 and 111.
JoinHandle(r, next) ==
    IF handle[r] = "NULL"
    THEN /\ pc' = next
         /\ UNCHANGED joined
    ELSE /\ ThriftServerJoinReturns(r)
         /\ joined' = joined \cup {r}
         /\ pc' = next

\* Line 110
JoinPlanner ==
    /\ pc = "join_planner"
    /\ JoinHandle("planner", "join_worker")
    /\ UNCHANGED <<config, outcome, envState, bootstrap, handle, startCalled,
                   startFailed, stopOrder, metrics>>

JoinWorker_Omitted ==
    /\ pc = "join_worker"
    /\ pc' = "delete_planner"
    /\ UNCHANGED <<config, outcome, envState, bootstrap, services, metrics>>

\* Line 111
JoinWorker ==
    /\ pc = "join_worker"
    /\ JoinHandle("worker", "delete_planner")
    /\ UNCHANGED <<config, outcome, envState, bootstrap, handle, startCalled,
                   startFailed, stopOrder, metrics>>

\* delete p: destroys the ThriftServer, nothing for a null pointer.
DeleteHandle(r) ==
    handle' = IF handle[r] = "NULL" THEN handle ELSE [handle EXCEPT ![r] = "deleted"]

DeletePlanner_ClearsFlag ==
    /\ pc = "delete_planner"
    /\ DeleteHandle("planner")
    /\ flags' = [flags EXCEPT !["RUNNING_PLANNER"] = FALSE]
    /\ pc' = "delete_worker"
    /\ UNCHANGED <<config, outcome, envState, bootstrap, startCalled, startFailed,
                   joined, stopOrder, writes>>

\* Line 113
DeletePlanner ==
    /\ pc = "delete_planner"
    /\ DeleteHandle("planner")
    /\ pc' = "delete_worker"
    /\ UNCHANGED <<config, outcome, envState, bootstrap, startCalled, startFailed,
                   joined, stopOrder, metrics>>

DeleteWorker_Omitted ==
    /\ pc = "delete_worker"
    /\ pc' = "return"
    /\ UNCHANGED <<config, outcome, envState, bootstrap, services, metrics>>

\* Line 114
DeleteWorker ==
    /\ pc = "delete_worker"
    /\ DeleteHandle("worker")
    /\ pc' = "return"
    /\ UNCHANGED <<config, outcome, envState, bootstrap, startCalled, startFailed,
                   joined, stopOrder, metrics>>

\* Lines 116-117: return 0 leaves main(), destroying its locals
\* (server, then exec_env).
Return ==
    /\ pc = "return"
    /\ server' = FALSE
    /\ exec_env' = "destroyed"
    /\ Exit(0, "none")
    /\ UNCHANGED <<config, errorLogged, loggingShutdown, commonRuntime, service_id,
                   instrumentation, bootstrap, services, metrics>>

Next ==
    \/ InitCommonRuntime
    \/ CheckPorts
    \/ InitializeLlvm
    \/ InitLibhdfs
    \/ HBaseTableScannerInit
    \/ HBaseTableFactoryInit
    \/ HBaseTableWriterInitJNI
    \/ InitFeSupport
    \/ GenerateServiceId
    \/ ConstructExecEnv
    \/ StartThreadInstrumentation
    \/ InitRpcEventTracing
    \/ CreateImpalaServer
    \/ StartRecordServiceServices
    \/ StartServices
    \/ StartPlanner
    \/ PublishPlanner
    \/ StartWorker
    \/ PublishWorker
    \/ PublishReady
    \/ JoinPlanner
    \/ JoinWorker
    \/ DeletePlanner
    \/ DeleteWorker
    \/ Return
    \/ \E r \in Roles : ServiceLoopExit(r)

Spec == Init /\ [][Next]_vars

\* The steps of main(): the thread running it is scheduled until the process
\* exits, so a statement that can execute eventually does.  Nothing obliges
\* a service loop to terminate.
MainThread ==
    \/ InitCommonRuntime
    \/ CheckPorts
    \/ InitializeLlvm
    \/ InitLibhdfs
    \/ HBaseTableScannerInit
    \/ HBaseTableFactoryInit
    \/ HBaseTableWriterInitJNI
    \/ InitFeSupport
    \/ GenerateServiceId
    \/ ConstructExecEnv
    \/ StartThreadInstrumentation
    \/ InitRpcEventTracing
    \/ CreateImpalaServer
    \/ StartRecordServiceServices
    \/ StartServices
    \/ StartPlanner
    \/ PublishPlanner
    \/ StartWorker
    \/ PublishWorker
    \/ PublishReady
    \/ JoinPlanner
    \/ JoinWorker
    \/ DeletePlanner
    \/ DeleteWorker
    \/ Return

FairSpec == Spec /\ WF_vars(MainThread)

----------------------------------------------------------------------------
\* Vocabulary of the properties

Enabled(r) == IF r = "planner" THEN plannerPort # 0 ELSE workerPort # 0
Other(r) == IF r = "planner" THEN "worker" ELSE "planner"
RoleFlag(r) == IF r = "planner" THEN "RUNNING_PLANNER" ELSE "RUNNING_WORKER"
NoRole == plannerPort = 0 /\ workerPort = 0
BothRoles == plannerPort # 0 /\ workerPort # 0
NoFlagSet == \A f \in Flags : ~flags[f]
\* No service loop runs or ever ran.
NoServiceStarted ==
    /\ startCalled \subseteq startFailed
    /\ \A r \in Roles : handle[r] \in {"NULL", "created"}
Failed(steps) == \E s \in steps : bootstrap[s] = "failed"
\* Positions of main() after line 107.
AfterReady == {"join_planner", "join_worker", "delete_planner", "delete_worker", "return"}
\* Positions of main() before line 83.
BeforeCreateServer == {"init_common_runtime", "check_ports"}

\* C1: with plannerPort = 0 and workerPort = 0, main() never gets past the
\* option check: it exits with a non-zero status, the shared server and the
\* handles are never constructed and no readiness flag is ever true.
C1_NoRoleExitsBeforeConstruction ==
    NoRole =>
        /\ pc \in BeforeCreateServer \cup {"exited"}
        /\ ~server
        /\ \A r \in Roles : handle[r] = "NULL"
        /\ NoFlagSet
        /\ (exited => exitStatus # 0)
        /\ (~exited => ENABLED Next)

C1_Witness == NoRole /\ exited /\ exitStatus = 1 /\ abortCause = "precondition"

\* C2: with both roles enabled, IMPALA_SERVER_READY is true only if
\* RUNNING_PLANNER and RUNNING_WORKER are true, and both were already true in
\* the state from which IMPALA_SERVER_READY is set.
C2_ReadyOnlyAfterBothFlags ==
    /\ [](BothRoles =>
            (flags["IMPALA_SERVER_READY"] =>
                flags["RUNNING_PLANNER"] /\ flags["RUNNING_WORKER"]))
    /\ [][(BothRoles /\ ~flags["IMPALA_SERVER_READY"] /\ flags'["IMPALA_SERVER_READY"])
            => (flags["RUNNING_PLANNER"] /\ flags["RUNNING_WORKER"])]_vars

C2_Witness ==
    /\ BothRoles
    /\ flags["IMPALA_SERVER_READY"]
    /\ flags["RUNNING_PLANNER"]
    /\ flags["RUNNING_WORKER"]

\* C3: with exactly one role enabled, the flag of the disabled role is never
\* true, the disabled role has no handle and is never started, the global
\* flag is true only after the enabled role has been started and published,
\* and it is true from line 107 on.
C3_SingleRole ==
    \A r \in Roles :
        (Enabled(r) /\ ~Enabled(Other(r))) =>
            /\ ~flags[RoleFlag(Other(r))]
            /\ handle[Other(r)] = "NULL"
            /\ Other(r) \notin startCalled
            /\ (flags["IMPALA_SERVER_READY"] =>
                    /\ flags[RoleFlag(r)]
                    /\ r \in startCalled \ startFailed)
            /\ (pc \in AfterReady => flags["IMPALA_SERVER_READY"])
            /\ ((exited /\ exitStatus = 0) => flags["IMPALA_SERVER_READY"])

C3_Witness ==
    /\ plannerPort # 0
    /\ workerPort = 0
    /\ handle["planner"] = "running"
    /\ flags["RUNNING_PLANNER"]
    /\ ~flags["RUNNING_WORKER"]
    /\ flags["IMPALA_SERVER_READY"]

\* C4: once the Start of a handle has failed the process has exited with a
\* non-zero status, IMPALA_SERVER_READY is false, no Join has returned and
\* the failed role's flag is false, also when the planner was already running.
C4_StartFailureIsFatal ==
    startFailed # {} =>
        /\ exited
        /\ exitStatus # 0
        /\ ~flags["IMPALA_SERVER_READY"]
        /\ joined = {}
        /\ \A r \in startFailed : ~flags[RoleFlag(r)]

C4_Witness ==
    /\ startFailed = {"worker"}
    /\ handle["planner"] \in {"running", "stopped"}
    /\ flags["RUNNING_PLANNER"]
    /\ exited

C6_EnvStartFailure ==
    (BothRoles /\ exec_env = "start_failed") =>
        /\ exited
        /\ exitStatus # 0
        /\ startCalled = {}
        /\ \A r \in Roles : handle[r] = "created"
        /\ NoFlagSet

C6_Witness ==
    /\ BothRoles
    /\ exec_env = "start_failed"
    /\ exited
    /\ abortCause = "env_start"

\* Startup went all the way to line 107 with every status in steps ok.
StartupSucceeded(steps) ==
    /\ ~Failed(steps)
    /\ ~NoRole
    /\ startFailed = {}
    /\ \A r \in Roles : Enabled(r) => r \in startCalled
    /\ flags["IMPALA_SERVER_READY"]

\* Every started service loop was joined and every handle released.
LoopsExitedAndTornDown ==
    /\ joined = startCalled
    /\ \A r \in startCalled : handle[r] = "deleted"

\* A fatal startup error among the failures of steps.
FatalStartupError(steps) ==
    \/ NoRole
    \/ Failed(steps)
    \/ abortCause \in {"create_server", "activation"}
    \/ exec_env = "start_failed"
    \/ startFailed # {}

C8_FlagsMonotonic ==
    /\ [][\A f \in Flags : flags[f] => flags'[f]]_vars
    /\ [](\A f \in Flags : writes[f] <= 1)

C8_Witness ==
    /\ exited
    /\ exitStatus = 0
    /\ \A f \in Flags : flags[f] /\ writes[f] = 1

\* C9: a handle is deleted only when no service loop is running any more and
\* the Join of every started handle has returned.
C9_NoTeardownBeforeAllJoins ==
    (\E r \in Roles : handle[r] = "deleted") =>
        /\ \A r \in Roles : handle[r] \in {"NULL", "stopped", "deleted"}
        /\ joined = startCalled
        /\ \A r \in Roles : Enabled(r) => r \in joined

C9_Witness ==
    /\ stopOrder = <<"worker", "planner">>
    /\ handle["planner"] = "deleted"
    /\ handle["worker"] = "stopped"

\* C10: once computed, service_id is "recordserviced@<host>:<port>" with port
\* the planner port when that is non-zero and the worker port otherwise; a
\* configuration with the same hostname and the same primary port gets the
\* same id, one with the same hostname and another primary port another id.
C10_ServiceIdentity ==
    service_id # "" =>
        LET primary == IF plannerPort # 0 THEN plannerPort ELSE workerPort IN
        /\ service_id = "recordserviced@" \o hostname \o ":" \o ToDecimal(primary)
        /\ (hostname = "node1" /\ primary = 7 => service_id = "recordserviced@node1:7")
        /\ (hostname = "node2" /\ primary = 10 => service_id = "recordserviced@node2:10")
        /\ \A pp \in Ports, wp \in Ports :
              LET other == IF pp # 0 THEN pp ELSE wp IN
              /\ (other = primary => ServiceId(hostname, pp, wp) = service_id)
              /\ (other # primary => ServiceId(hostname, pp, wp) # service_id)

C10_Witness ==
    /\ plannerPort = 0
    /\ workerPort = 10
    /\ service_id = "recordserviced@node2:10"
\* Index of a native initialisation call in program order.
StepIndex(s) == CHOOSE i \in 1 .. Len(BootstrapSteps) : BootstrapSteps[i] = s

\* Nothing of lines 68-88 has happened.
NothingAfterBootstrap ==
    /\ service_id = ""
    /\ exec_env = "none"
    /\ instrumentation = {}
    /\ ~server
    /\ \A r \in Roles : handle[r] = "NULL"

\* After a failure of a call of steps no later call has run, nor anything
\* of lines 68-88.
FailFast(steps) ==
    \A s \in steps :
        bootstrap[s] = "failed" =>
            /\ \A t \in StepNames : StepIndex(t) > StepIndex(s) => bootstrap[t] = "notrun"
            /\ NothingAfterBootstrap

BootstrapBegun == \E s \in StepNames : bootstrap[s] # "notrun"
BootstrapDone == (\A s \in StepNames : bootstrap[s] # "notrun") /\ ~Failed(CheckedSteps)
IdentityDone == service_id # ""
EnvironmentBegun == exec_env # "none"
EnvironmentDone == exec_env # "none" /\ instrumentation = {"thread", "rpc"}
ActivatorBegun == server \/ \E r \in Roles : handle[r] # "NULL"

\* C12 as stated: the order is Environment Initializer, Subsystem
\* Bootstrapper, Identity Generator, Role Activator.
C12_OrderEnvironmentFirst ==
    /\ (BootstrapBegun => EnvironmentDone)
    /\ (IdentityDone => BootstrapDone)
    /\ (ActivatorBegun => IdentityDone)

\* C12, amended: the order is Subsystem Bootstrapper, Identity Generator,
\* Environment Initializer (ExecEnv and its instrumentation), Role
\* Activator; a stage begins only when the one before it has run to its end
\* with every status main() checks ok.
C12_OrderBootstrapFirst ==
    /\ (IdentityDone => BootstrapDone)
    /\ (EnvironmentBegun => IdentityDone)
    /\ (ActivatorBegun => EnvironmentDone)

C12_Witness ==
    /\ handle["planner"] = "created"
    /\ handle["worker"] = "created"
    /\ exec_env = "constructed"
    /\ service_id # ""

\* The ExecEnv object exists.
EnvAlive == exec_env \in {"constructed", "started", "start_failed"}

\* C13: ExecEnv is constructed once, after service_id was derived and before
\* any handle exists; a Start is invoked only with the environment's
\* services started; the environment is alive whenever a handle exists that
\* has not been deleted, and at every step that deletes a handle.
C13_EnvironmentLifetime ==
    /\ [](EnvAlive => service_id # "")
    /\ []((\E r \in Roles : handle[r] \in {"created", "running", "stopped"})
            => (EnvAlive \/ exited))
    /\ [](startCalled # {} => exec_env \in {"started", "destroyed"})
    /\ [](exec_env = "destroyed" => pc = "exited" /\ exitStatus = 0)
    /\ [][(exec_env' # exec_env /\ exec_env' = "constructed")
            => (exec_env = "none" /\ \A r \in Roles : handle[r] = "NULL")]_vars
    /\ [][(\E r \in Roles : handle'[r] = "deleted" /\ handle[r] # "deleted")
            => (exec_env = "started" /\ exec_env' = "started")]_vars
    /\ [][exec_env = "destroyed" => exec_env' = "destroyed"]_vars

C13_Witness ==
    /\ exec_env = "started"
    /\ handle["planner"] = "deleted"
    /\ handle["worker"] = "deleted"
    /\ pc = "return"
\* The process ended through one of the fatal exits of main().
FatalAbort == exited /\ exitStatus # 0

\* C14: on every fatal exit the error was logged and the log sinks were
\* flushed (ShutdownLogging) before the process terminated.
C14_FatalAbortLogsAndFlushes == FatalAbort => (errorLogged /\ loggingShutdown)

\* C15 as stated: with both ports zero nothing has been initialised when the
\* process exits, the common runtime included.
C15_NoInitBeforePortCheck ==
    (NoRole /\ exited) =>
        /\ ~commonRuntime
        /\ ~BootstrapBegun
        /\ NothingAfterBootstrap

\* C15, amended: with both ports zero the process exits having run
\* InitCommonRuntime (line 53) and nothing else: no native initialisation
\* call, no service id, no ExecEnv, no server, no handle.
C15_OnlyCommonRuntimeBeforePortCheck ==
    (NoRole /\ exited) =>
        /\ commonRuntime
        /\ ~BootstrapBegun
        /\ NothingAfterBootstrap

C15_Witness ==
    /\ NoRole
    /\ exited
    /\ commonRuntime
    /\ errorLogged
    /\ ~BootstrapBegun

\* C16: a role's flag is true only if that role's Start was invoked and
\* returned success, it is set from a state in which that is already so, the
\* worker's Start is invoked only after the planner (when it has a handle)
\* was started and its flag published, and the global flag only after every
\* role with a handle was published.
C16_StartThenPublishInTurn ==
    /\ [](\A r \in Roles : flags[RoleFlag(r)] => r \in startCalled \ startFailed)
    /\ []("worker" \in startCalled =>
            (handle["planner"] # "NULL" =>
                /\ "planner" \in startCalled \ startFailed
                /\ flags["RUNNING_PLANNER"]))
    /\ [][\A r \in Roles :
            (~flags[RoleFlag(r)] /\ flags'[RoleFlag(r)])
                => (r \in startCalled \ startFailed /\ startCalled' = startCalled)]_vars
    /\ [][\A r \in Roles :
            (r \notin startCalled /\ r \in startCalled') => startCalled' = startCalled \cup {r}]_vars

C16_Witness ==
    /\ pc = "publish_worker"
    /\ startCalled = Roles
    /\ startFailed = {}
    /\ flags["RUNNING_PLANNER"]
    /\ ~flags["RUNNING_WORKER"]
\* The handle of role r exists or existed: its Start succeeded.
WasStarted(r) == handle[r] \in {"running", "stopped", "deleted"} /\ r \notin startFailed

\* C17 as stated: while a role's flag is true that role's service loop is
\* running, and while the global flag is true the loop of every enabled
\* role is running.
C17_FlagMeansAccepting ==
    /\ \A r \in Roles : flags[RoleFlag(r)] => handle[r] = "running"
    /\ (flags["IMPALA_SERVER_READY"] =>
            \A r \in Roles : Enabled(r) => handle[r] = "running")

\* C17, amended: while a role's flag is true that role's Start has returned
\* success, and while the global flag is true that is so for every enabled
\* role; the loop may since have terminated and the handle may have been
\* deleted, the flags staying true.
C17_FlagMeansWasStarted ==
    /\ \A r \in Roles : flags[RoleFlag(r)] => WasStarted(r)
    /\ (flags["IMPALA_SERVER_READY"] => \A r \in Roles : Enabled(r) => WasStarted(r))

C17_Witness ==
    /\ flags["RUNNING_PLANNER"]
    /\ flags["IMPALA_SERVER_READY"]
    /\ handle["planner"] = "stopped"
    /\ handle["worker"] = "running"
    /\ ~exited

\* C18 as stated: when the process has exited, on whatever path, every
\* handle that was created has been deleted.
C18_HandlesReleasedOnEveryExit ==
    exited => \A r \in Roles : handle[r] \in {"NULL", "deleted"}

\* C18, amended: after return 0 every created handle has been deleted; after
\* a fatal exit no handle has been deleted, those already created are left
\* to the termination of the process.
C18_HandlesReleasedOnReturn ==
    /\ (exited /\ exitStatus = 0) =>
            \A r \in Roles : handle[r] = IF Enabled(r) THEN "deleted" ELSE "NULL"
    /\ FatalAbort => \A r \in Roles : handle[r] # "deleted"

C18_Witness ==
    /\ exited
    /\ exitStatus = 0
    /\ workerPort = 0
    /\ handle["planner"] = "deleted"
    /\ handle["worker"] = "NULL"

\* Startup succeeded (line 107 was reached) and no service loop runs.
AllLoopsTerminated ==
    flags["IMPALA_SERVER_READY"] /\ \A r \in Roles : handle[r] # "running"

\* C19: after a successful startup, once every started service loop has
\* terminated, in whichever order, main() eventually returns 0; and while a
\* started loop is still running main() is in one of the two Joins and no
\* handle has been deleted.
C19_JoinThenTerminate ==
    /\ [](flags["IMPALA_SERVER_READY"] /\ (\E r \in Roles : handle[r] = "running")
            => /\ pc \in {"join_planner", "join_worker"}
               /\ ~exited
               /\ \A r \in Roles : handle[r] # "deleted")
    /\ (AllLoopsTerminated ~> (exited /\ exitStatus = 0 /\ joined = startCalled))

C19_Witness ==
    /\ exited
    /\ exitStatus = 0
    /\ stopOrder = <<"worker", "planner">>
    /\ joined = Roles
====
